---- MODULE Spec2Model ----
(***************************************************************************)
(* A model of the shrinkage-detection risk engine: the composite scorer    *)
(* (detection.py), the threshold validator (validation.py), the cluster    *)
(* engine's risk normalisation, the pattern detector and the batch         *)
(* pipeline (pipeline.py).                                                  *)
(*                                                                         *)
(* Numbers.  The code computes in IEEE doubles; the model computes in      *)
(* fixed point.  A component in [0,1] (an anomaly value, cluster_risk,     *)
(* time_anomaly) is an integer in 0..One, One = 3000 standing for 1.0, and *)
(* a z-score is carried in thousandths, so that clip(|z|, 0, 3) / 3 is     *)
(* exact.  A weight is carried in tenths.  A risk score on the employee    *)
(* side is carried in units of 1/PointUnits of a point (PointUnits = 300). *)
(* Terminal rates are carried in thousandths and terminal scores in        *)
(* thousandths of a point.                                                 *)
(*                                                                         *)
(* A table is a record [cols, rows]: cols is the set of column names the   *)
(* DataFrame has, rows the sequence of its records.  A field of a row      *)
(* whose column is not in cols does not exist in the program and is never  *)
(* read by the model.                                                      *)
(***************************************************************************)
EXTENDS Integers, Sequences, FiniteSets, TLC

VARIABLES
    pc,               \* position of the operation under way
    fillna_validates, \* the pandas build: does fillna check the fill value when nothing is missing
    weights,          \* CompositeRiskScorer.weights
    features_df,      \* score_employees: the employee feature table
    pattern_counts,   \* score_employees: pattern counts, indexed by employee id
    risk_score,       \* score_employees: the Series of line 109
    reason_code,      \* score_employees: the Series of line 119
    risk_flag,        \* score_employees: the Series of lines 122-125
    employee_risk,    \* what score_employees returned, or the exception it raised
    features_pos,     \* score_terminals: the terminal feature table
    pos_risk,         \* what score_terminals returned
    prc_truncates,    \* the scikit-learn build: precision_recall_curve stops at full recall
    validator,        \* Validator: target_recall and target_fpr, in percent
    y_true,           \* the labels given to the validator
    y_scores,         \* the scores given to the validator
    best,             \* what find_best_threshold returned, or the exception it raised
    error_analysis,   \* the last call of error_analysis: its arguments and what it returned
    n_clusters,       \* BehavioralCluster.n_clusters
    cluster_input,    \* fit_predict: per record, the mean of its first three clustering features
    clustered,        \* fit_predict: the cluster and cluster_risk columns, or the exception raised
    transactions,     \* PatternDetector.transactions
    pattern_result,   \* what get_pattern_counts returned, or the exception it raised
    employee_master,  \* main: the employee-to-store mapping table
    anomaly_employees, \* main: the ground-truth table, if one was loaded
    report,           \* main: the pattern report
    outputs,          \* the output files written
    failed,           \* the stage at which main called sys.exit(1), and the exception
    features_employee, \* FeatureProcessor.features_employee
    peer_returns      \* what each call of add_peer_comparisons returned, or the exception raised

scoreVars == <<fillna_validates, weights, features_df, pattern_counts,
               risk_score, reason_code, risk_flag, employee_risk>>

terminalVars == <<features_pos, pos_risk>>

validatorVars == <<prc_truncates, validator, y_true, y_scores, best, error_analysis>>

clusterVars == <<n_clusters, cluster_input, clustered>>

patternVars == <<transactions, pattern_result>>

mainVars == <<employee_master, anomaly_employees, report, outputs, failed>>

peerVars == <<features_employee, peer_returns>>

vars == <<pc, scoreVars, terminalVars, validatorVars, clusterVars, patternVars, mainVars, peerVars>>

(***************************************************************************)
(* Fixed point and small helpers                                           *)
(***************************************************************************)
\* numpy.nan in a numeric column
NaN == -999999

\* np.clip(..., 0, 3): the upper clip bound of the z-score anomaly
ZCLIP == 3

\* 1.0 for a component; z-scores in thousandths make clip(|z|,0,3)/3 exact
One == ZCLIP * 1000

\* score units per point: weights are in tenths, raw_score * 100 is the score
PointUnits == (One * 10) \div 100

Abs(x) == IF x < 0 THEN -x ELSE x

\* np.clip(x, lo, hi)
Clip(x, lo, hi) == IF x < lo THEN lo ELSE IF x > hi THEN hi ELSE x

Range(s) == {s[i] : i \in DOMAIN s}

SetMin(S) == CHOOSE x \in S : \A y \in S : x <= y

SetMax(S) == CHOOSE x \in S : \A y \in S : y <= x

\* A raised exception, as a value
Raised(name) == [raised |-> name]

NoValue == [raised |-> "unset"]

IsRaised(v) == "raised" \in DOMAIN v

(***************************************************************************)
(* config.py                                                               *)
(***************************************************************************)
\* RISK_WEIGHTS, in tenths
RISK_WEIGHTS ==
    [refund_anomaly |-> 3, void_anomaly |-> 2, override_anomaly |-> 2,
     cluster_risk |-> 2, time_anomaly |-> 1]

\* RISK_THRESHOLDS, in points
RISK_THRESHOLDS == [high |-> 85, moderate |-> 70]

(***************************************************************************)
(* features.py: FeatureProcessor                                           *)
(* A metric (a rate) is carried in millionths.  Deviations from a store    *)
(* mean are taken in ten-thousandths before squaring, which keeps the sum  *)
(* of squares within the integers of the checker; a z-score comes out in   *)
(* thousandths, rounded down.                                              *)
(***************************************************************************)
\* The metrics of line 18 that the tables of the model can have; none has
\* avg_discount_pct, cash_rate or no_receipt_refund_rate
PeerMetrics == <<"refund_rate", "void_rate", "override_rate">>

RECURSIVE SumOver(_, _)
SumOver(f, S) ==
    IF S = {} THEN 0
    ELSE LET x == CHOOSE y \in S : TRUE IN f[x] + SumOver(f, S \ {x})

\* The largest r in lo..hi with r * r <= v
RECURSIVE SqrtBetween(_, _, _)
SqrtBetween(v, lo, hi) ==
    IF lo = hi THEN lo
    ELSE LET mid == (lo + hi + 1) \div 2
         IN  IF mid * mid <= v THEN SqrtBetween(v, mid, hi) ELSE SqrtBetween(v, lo, mid - 1)

ISqrt(v) == SqrtBetween(v, 0, 40000)

\* Lines 23-26: store_id is merged in from employee_master (a left join on
\* employee_id) when the feature table has no such column.  A record without
\* a match keeps a missing store_id; a record with several matches is repeated.
RECURSIVE LeftJoinStore(_, _)
LeftJoinStore(rows, master) ==
    IF rows = <<>> THEN <<>>
    ELSE LET matches == SelectSeq(master, LAMBDA m : m.employee_id = Head(rows).employee_id)
         IN  (IF matches = <<>>
              THEN <<("store_id" :> NaN) @@ Head(rows)>>
              ELSE [k \in 1..Len(matches) |-> ("store_id" :> matches[k].store_id) @@ Head(rows)])
             \o LeftJoinStore(Tail(rows), master)

WithStoreId(features, master) ==
    IF "store_id" \in features.cols THEN features
    ELSE IF ~({"employee_id", "store_id"} \subseteq master.cols) \/ "employee_id" \notin features.cols
         THEN Raised("KeyError")
    ELSE [cols |-> features.cols \cup {"store_id"}, rows |-> LeftJoinStore(features.rows, master.rows)]

\* The records of the store of record i
StoreGroup(rows, i) == {j \in DOMAIN rows : rows[j].store_id = rows[i].store_id}

\* Line 32: the store's mean of a metric, millionths.  The columns
\* <metric>_store_mean and <metric>_store_std are in cols; the rows do not
\* carry their values, which only lines 36-38 read.
StoreMean(rows, metric, i) ==
    SumOver([j \in DOMAIN rows |-> rows[j][metric]], StoreGroup(rows, i))
        \div Cardinality(StoreGroup(rows, i))

\* Lines 32-34: the store's sample standard deviation (ddof=1), ten-thousandths;
\* that of a single record is missing and filled with 0
StoreStd(rows, metric, i) ==
    LET G == StoreGroup(rows, i)
        mean == StoreMean(rows, metric, i)
    IN  IF Cardinality(G) < 2 THEN 0
        ELSE ISqrt(SumOver([j \in DOMAIN rows |->
                               ((rows[j][metric] - mean) \div 100) * ((rows[j][metric] - mean) \div 100)],
                           G) \div (Cardinality(G) - 1))

\* A variant of lines 36-38 without the clip(1e-6): a standard deviation of 0
\* divides 0 by 0, which is missing
ZScoreUnclipped(rows, metric, i) ==
    IF rows[i].store_id = NaN \/ StoreStd(rows, metric, i) = 0 THEN NaN
    ELSE ((rows[i][metric] - StoreMean(rows, metric, i)) * 10) \div StoreStd(rows, metric, i)

\* Lines 36-38: (value - mean) / std.clip(1e-6), thousandths.  A standard
\* deviation of 0 is raised to one millionth.  groupby leaves out the records
\* without store_id, so the merge of line 35 finds no statistics for them and
\* their z-score is missing.
ZScore(rows, metric, i) ==
    IF rows[i].store_id = NaN THEN NaN
    ELSE LET d == rows[i][metric] - StoreMean(rows, metric, i)
             std == StoreStd(rows, metric, i)
         IN  IF std = 0 THEN d * 1000 ELSE (d * 10) \div std

\* Line 32 in doubles: the mean is the sum of the group's values divided by
\* their number.  For n records of one value v the quotient is v or the double
\* next above it: it is the double above for three records at 0.003, 0.05,
\* 0.09 or 0.1 (0.05 + 0.05 + 0.05 is 0.15000000000000002, and a third of
\* that is 0.05000000000000001), and v itself for the other values of the
\* model in groups of up to five.
MeanRoundsUp(v, n) == n = 3 /\ v \in {3000, 50000, 90000, 100000}

\* Lines 36-38 in doubles, for a record of a group whose values are all the
\* same: what the z-score is beyond its thousandths.  With the mean one double
\* above the value, (value - mean) / 1e-6 is negative and not 0 (about -7e-12
\* for 0.05): -1 stands for it.
ZScoreResidue(rows, metric, i) ==
    IF /\ rows[i].store_id # NaN
       /\ \A j \in StoreGroup(rows, i) : rows[j][metric] = rows[i][metric]
       /\ MeanRoundsUp(rows[i][metric], Cardinality(StoreGroup(rows, i)))
    THEN -1
    ELSE 0

\* Line 41: rank(pct=True) within the store, ties sharing their average
\* rank, thousandths
Percentile(rows, metric, i) ==
    LET G == StoreGroup(rows, i)
        less == Cardinality({j \in G : rows[j][metric] < rows[i][metric]})
        equal == Cardinality({j \in G : rows[j][metric] = rows[i][metric]})
    IN  IF rows[i].store_id = NaN THEN NaN
        ELSE ((2 * less + equal + 1) * 1000) \div (2 * Cardinality(G))

\* The columns add_peer_comparisons adds for one metric, and those
\* add_outlier_flags adds for its z-score column
PeerColumns(metric) ==
    {metric \o "_store_mean", metric \o "_store_std", metric \o "_zscore", metric \o "_percentile"}

OutlierColumns(metric) ==
    {metric \o "_outlier_z", metric \o "_outlier_iqr", metric \o "_outlier_pct"}

\* The loop of lines 28-41 over the metrics from position k on: the z-score
\* and percentile fields it adds to record i.  The loop leaves the metric
\* columns as they are, so every pass reads the values of the table it
\* started from.  The field <metric>_zscore_residue is no column of the
\* table: it carries what the double in <metric>_zscore is beyond the
\* thousandths the model keeps.
RECURSIVE PeerFields(_, _, _)
PeerFields(table, i, k) ==
    IF k > Len(PeerMetrics) THEN <<>>
    ELSE IF PeerMetrics[k] \notin table.cols THEN PeerFields(table, i, k + 1)
    ELSE ((PeerMetrics[k] \o "_zscore") :> ZScore(table.rows, PeerMetrics[k], i))
         @@ ((PeerMetrics[k] \o "_zscore_residue") :> ZScoreResidue(table.rows, PeerMetrics[k], i))
         @@ ((PeerMetrics[k] \o "_percentile") :> Percentile(table.rows, PeerMetrics[k], i))
         @@ PeerFields(table, i, k + 1)

\* Lines 28-41 on a table that has store_id
PeerComparisons(table) ==
    [cols |-> table.cols \cup UNION {PeerColumns(PeerMetrics[k]) :
                                k \in {j \in 1..Len(PeerMetrics) : PeerMetrics[j] \in table.cols}},
     rows |-> [i \in DOMAIN table.rows |-> PeerFields(table, i, 1) @@ table.rows[i]]]

\* The metrics of the loop whose statistics columns the table already has.
\* The merge of line 35 then renames the table's <metric>_store_mean and
\* <metric>_store_std with the suffix _x and the new ones with _y, and line 37
\* finds no <metric>_store_mean: KeyError.
OverlappingMetrics(table) ==
    {k \in 1..Len(PeerMetrics) :
        /\ PeerMetrics[k] \in table.cols
        /\ {PeerMetrics[k] \o "_store_mean", PeerMetrics[k] \o "_store_std"} \cap table.cols # {}}

\* The table line 35 leaves when the statistics columns of a metric overlap
Suffixed(table, metric) ==
    [table EXCEPT !.cols =
        (@ \ {metric \o "_store_mean", metric \o "_store_std"})
            \cup {metric \o "_store_mean_x", metric \o "_store_mean_y",
                  metric \o "_store_std_x", metric \o "_store_std_y"}]

\* add_peer_comparisons: the table it returns, or the exception raised
AddPeerComparisons(features, master) ==
    IF IsRaised(WithStoreId(features, master)) THEN WithStoreId(features, master)
    ELSE IF OverlappingMetrics(WithStoreId(features, master)) # {} THEN Raised("KeyError")
    ELSE PeerComparisons(WithStoreId(features, master))

\* self.features_employee after add_peer_comparisons.  A failed merge of
\* store_id leaves it as it was.  The tables of the model have the statistics
\* columns of all their metrics or of none, so the first metric of the loop
\* is the one that overlaps.
TableAfterPeerComparisons(features, master) ==
    IF IsRaised(WithStoreId(features, master)) THEN features
    ELSE IF OverlappingMetrics(WithStoreId(features, master)) # {}
         THEN Suffixed(WithStoreId(features, master),
                       PeerMetrics[SetMin(OverlappingMetrics(WithStoreId(features, master)))])
    ELSE PeerComparisons(WithStoreId(features, master))

\* add_outlier_flags: three flag columns for every z-score column.  The
\* values of the flags are not carried: no later stage reads them.
AddOutlierFlags(table) ==
    [table EXCEPT !.cols = @ \cup UNION {OutlierColumns(PeerMetrics[k]) :
                                 k \in {j \in 1..Len(PeerMetrics) : PeerMetrics[j] \in table.cols}}]

\* add_time_anomaly: the column is set to 0.0
AddTimeAnomaly(table) ==
    [cols |-> table.cols \cup {"time_anomaly"},
     rows |-> [i \in DOMAIN table.rows |-> ("time_anomaly" :> 0) @@ table.rows[i]]]

\* process: the employee feature table it returns, or the exception raised
Process(features, master) ==
    IF IsRaised(AddPeerComparisons(features, master)) THEN AddPeerComparisons(features, master)
    ELSE AddTimeAnomaly(AddOutlierFlags(AddPeerComparisons(features, master)))

(***************************************************************************)
(* detection.py: BehavioralCluster.fit_predict                             *)
(* KMeans is not computed: its partition of the records is an input of the *)
(* model.  A centre is the mean of its members, so the raw risk of a        *)
(* cluster, the mean of the centre's first three features, is the mean over *)
(* its members of the mean of their first three features, here in           *)
(* millionths.                                                              *)
(***************************************************************************)
\* BehavioralCluster(n_clusters=5)
N_CLUSTERS == 5

\* The 1e-6 of line 38, in millionths
EPSILON == 1

\* KMeans.fit_predict raises ValueError when there are fewer samples than clusters
KMeansRaises(n, k) == n < k

\* Lines 27-32: np.mean(center[:3]) of the cluster labelled c
ClusterRawRisk(proxies, labels, c) ==
    LET members == {i \in DOMAIN labels : labels[i] = c}
    IN  SumOver(proxies, members) \div Cardinality(members)

\* Line 35: features_df['cluster'].map(cluster_risk)
MappedRisk(proxies, labels) ==
    [i \in DOMAIN labels |-> ClusterRawRisk(proxies, labels, labels[i])]

\* Lines 37-38: (x - min) / (max - min + 1e-6), as a component in 0..One
NormalizedRisk(mapped) ==
    LET lo == SetMin(Range(mapped))
        hi == SetMax(Range(mapped))
    IN  [i \in DOMAIN mapped |-> ((mapped[i] - lo) * One) \div (hi - lo + EPSILON)]

\* fit_predict, given the partition KMeans found
FitPredict(k, proxies, labels) ==
    IF KMeansRaises(Len(proxies), k) THEN Raised("ValueError")
    ELSE [cluster |-> labels, cluster_risk |-> NormalizedRisk(MappedRisk(proxies, labels))]

(***************************************************************************)
(* detection.py: PatternDetector                                           *)
(***************************************************************************)
\* The columns detect_high_discount_cash and detect_refund_no_receipt read
PatternColumns ==
    {"employee_id", "discount_amount", "sale_amount", "payment_method",
     "refund_flag", "receipt_provided"}

\* Lines 50-51: discount_amount / sale_amount.clip(1) > 0.3, paid in cash
HighDiscountCash(row) ==
    /\ 10 * row.discount_amount > 3 * (IF row.sale_amount < 1 THEN 1 ELSE row.sale_amount)
    /\ row.payment_method = "cash"

\* Line 56: a refund without receipt
RefundNoReceipt(row) == row.refund_flag = 1 /\ row.receipt_provided = 0

\* transactions[mask].groupby('employee_id').size(): the employees with a
\* record under the mask, each with the number of such records
SizeByEmployee(rows, mask) ==
    [e \in {rows[i].employee_id : i \in {j \in DOMAIN rows : mask[j]}} |->
        Cardinality({i \in DOMAIN rows : rows[i].employee_id = e /\ mask[i]})]

\* Lines 67-74: the two counts side by side, a missing one filled with 0,
\* and their sum; indexed by the employees that have either
PatternCounts(rows) ==
    LET hd == SizeByEmployee(rows, [i \in DOMAIN rows |-> HighDiscountCash(rows[i])])
        nr == SizeByEmployee(rows, [i \in DOMAIN rows |-> RefundNoReceipt(rows[i])])
        CountOf(f, e) == IF e \in DOMAIN f THEN f[e] ELSE 0
    IN  [e \in DOMAIN hd \cup DOMAIN nr |->
            [high_discount_cash |-> CountOf(hd, e),
             refund_no_receipt |-> CountOf(nr, e),
             total_patterns |-> CountOf(hd, e) + CountOf(nr, e)]]

\* get_pattern_counts on a table: KeyError when a column it reads is absent
GetPatternCounts(table) ==
    IF ~(PatternColumns \subseteq table.cols) THEN Raised("KeyError")
    ELSE [counts |-> PatternCounts(table.rows)]

\* Line 50 adds the discount_pct column to the table the detector was given
WithDiscountPct(table) ==
    IF {"discount_amount", "sale_amount"} \subseteq table.cols
    THEN [table EXCEPT !.cols = @ \cup {"discount_pct"}]
    ELSE table

(***************************************************************************)
(* detection.py: CompositeRiskScorer.score_employees                       *)
(***************************************************************************)
\* The component names, in the column order of the contributions frame
Components == <<"refund", "void", "override", "cluster", "time">>

\* The columns score_employees reads with features_df[...]: a missing one is a KeyError
RequiredColumns ==
    {"refund_rate_zscore", "void_rate_zscore", "override_rate_zscore",
     "cluster_risk", "employee_id", "store_id"}

\* np.clip(z.abs(), 0, 3) / 3
Anomaly(z) == Clip(Abs(z), 0, One)

\* features_df['cluster_risk'].fillna(0)
FillNa0(x) == IF x = NaN THEN 0 ELSE x

\* The five component values of a row, in the order of Components.  time_anomaly
\* is the column if the table has it and the scalar 0 otherwise.
ComponentValues(cols, row) ==
    <<Anomaly(row.refund_rate_zscore),
      Anomaly(row.void_rate_zscore),
      Anomaly(row.override_rate_zscore),
      FillNa0(row.cluster_risk),
      IF "time_anomaly" \in cols THEN row.time_anomaly ELSE 0>>

WeightOf(w) ==
    <<w.refund_anomaly, w.void_anomaly, w.override_anomaly, w.cluster_risk, w.time_anomaly>>

\* weight_i * component_i * 100, per component
Contributions(w, cols, row) ==
    [i \in 1..5 |-> WeightOf(w)[i] * ComponentValues(cols, row)[i]]

SumSeq(s) == s[1] + s[2] + s[3] + s[4] + s[5]

\* raw_score * 100.  The doubles 0.3 + 0.2 + 0.2 + 0.2 + 0.1 add up to
\* 0.9999999999999999, not 1.0, so with RISK_WEIGHTS and all five components
\* at 1.0 the score is 99.99999999999999: the model's largest value below 100.
\* On the other values the model draws, the double and the exact score lie on
\* the same side of every bin edge.
RiskScore(w, cols, row) ==
    LET exact == SumSeq(Contributions(w, cols, row))
    IN  IF w = RISK_WEIGHTS /\ \A i \in 1..5 : ComponentValues(cols, row)[i] = One
        THEN exact - 1
        ELSE exact

\* A variant of idxmax: the last column holding the row's maximum
IdxMaxLast(contrib) ==
    LET last == CHOOSE i \in 1..5 :
                    /\ \A j \in 1..5 : contrib[j] <= contrib[i]
                    /\ \A j \in (i + 1)..5 : contrib[j] < contrib[i]
    IN  Components[last]

\* contributions.idxmax(axis=1): the first column holding the row's maximum
IdxMax(contrib) ==
    LET first == CHOOSE i \in 1..5 :
                     /\ \A j \in 1..5 : contrib[j] <= contrib[i]
                     /\ \A j \in 1..(i - 1) : contrib[j] < contrib[i]
    IN  Components[first]

\* pd.cut(score, bins=[0, moderate, high, 100], labels=[...], right=False):
\* intervals closed on the left and open on the right; outside every bin is NaN
Cut(score, moderate, high, top) ==
    IF 0 <= score /\ score < moderate THEN "Monitor"
    ELSE IF moderate <= score /\ score < high THEN "Moderate"
    ELSE IF high <= score /\ score < top THEN "High"
    ELSE "NaN"

RiskFlag(score) ==
    Cut(score, RISK_THRESHOLDS.moderate * PointUnits,
        RISK_THRESHOLDS.high * PointUnits, 100 * PointUnits)

\* DataFrame.fillna(0) on the merged output, whose risk_flag column is
\* categorical with categories Monitor, Moderate, High: filling a missing
\* risk_flag with 0 raises TypeError (0 is no category).  Builds of pandas
\* before copy-on-write validate the fill value even when nothing is missing.
FillnaRaises(flags, validates) ==
    validates \/ \E i \in DOMAIN flags : flags[i] = "NaN"

\* A variant of the merge of line 138 without its fillna(0): the pattern
\* columns of an employee absent from pattern_counts stay missing
UnfilledPatterns(row, patterns) ==
    IF row.employee_id \in DOMAIN patterns
    THEN patterns[row.employee_id]
    ELSE [high_discount_cash |-> NaN, refund_no_receipt |-> NaN, total_patterns |-> NaN]

\* The pattern columns of one output row after the left merge on employee_id
\* and fillna(0).  pattern_counts is indexed by employee id.
MergedPatterns(row, patterns) ==
    IF row.employee_id \in DOMAIN patterns
    THEN patterns[row.employee_id]
    ELSE [high_discount_cash |-> 0, refund_no_receipt |-> 0, total_patterns |-> 0]

\* table.get(name, 0): the column, or the scalar 0 when it is absent
GetOr0(cols, row, name) == IF name \in cols THEN row[name] ELSE 0

\* One record of the returned table, lines 128-138
OutputRow(w, cols, row, patterns) ==
    [employee_id |-> row.employee_id,
     store_id |-> row.store_id,
     risk_score |-> RiskScore(w, cols, row),
     refund_rate |-> GetOr0(cols, row, "refund_rate"),
     void_rate |-> GetOr0(cols, row, "void_rate"),
     override_rate |-> GetOr0(cols, row, "override_rate"),
     peer_percentile |-> GetOr0(cols, row, "refund_rate_percentile") * 100,
     risk_flag |-> RiskFlag(RiskScore(w, cols, row)),
     reason_code |-> IdxMax(Contributions(w, cols, row)),
     patterns |-> MergedPatterns(row, patterns)]

\* What score_employees returns: the output table or the exception raised
ScoreEmployeesResult(w, df, patterns, validates) ==
    IF ~(RequiredColumns \subseteq df.cols) THEN Raised("KeyError")
    ELSE IF FillnaRaises([i \in DOMAIN df.rows |-> RiskFlag(RiskScore(w, df.cols, df.rows[i]))],
                         validates)
         THEN Raised("TypeError")
    ELSE [cols |-> {"employee_id", "store_id", "risk_score", "refund_rate", "void_rate",
                    "override_rate", "peer_percentile", "risk_flag", "reason_code",
                    "high_discount_cash", "refund_no_receipt", "total_patterns"},
          rows |-> [i \in DOMAIN df.rows |-> OutputRow(w, df.cols, df.rows[i], patterns)]]

(***************************************************************************)
(* detection.py: CompositeRiskScorer.score_terminals                       *)
(* Rates and the ratio are in thousandths, the score in thousandths of a   *)
(* point.                                                                  *)
(***************************************************************************)
\* Lines 149-151: an absent high_risk_employee_ratio column is created as 0.0
WithRatio(pos) ==
    IF "high_risk_employee_ratio" \in pos.cols THEN pos
    ELSE [cols |-> pos.cols \cup {"high_risk_employee_ratio"},
          rows |-> [i \in DOMAIN pos.rows |->
                       [pos.rows[i] EXCEPT !.high_risk_employee_ratio = 0]]]

\* Lines 154-159: (refund*20 + void*20 + override*20 + ratio*40) * 100
TerminalScore(cols, row) ==
    (GetOr0(cols, row, "refund_rate") * 20
     + GetOr0(cols, row, "void_rate") * 20
     + GetOr0(cols, row, "override_rate") * 20
     + row.high_risk_employee_ratio * 40) * 100

\* Lines 161-164: pd.cut with bins [0, 70, 85, 100], right=False
TerminalFlag(score) == Cut(score, 70 * 1000, 85 * 1000, 100 * 1000)

\* Lines 166-168: the listed columns that the table has
TerminalOutputColumns(cols) ==
    {"pos_terminal_id", "store_id", "risk_score", "refund_rate", "void_rate",
     "high_risk_employee_ratio", "risk_flag"} \cap (cols \cup {"risk_score", "risk_flag"})

\* Lines 149-164: features_pos as score_terminals leaves it, with the ratio,
\* risk_score and risk_flag columns set
ScoredTerminals(pos) ==
    LET p == WithRatio(pos)
    IN  [cols |-> p.cols \cup {"risk_score", "risk_flag"},
         rows |-> [i \in DOMAIN p.rows |->
                      [pos_terminal_id |-> p.rows[i].pos_terminal_id,
                       store_id |-> p.rows[i].store_id,
                       refund_rate |-> p.rows[i].refund_rate,
                       void_rate |-> p.rows[i].void_rate,
                       override_rate |-> p.rows[i].override_rate,
                       high_risk_employee_ratio |-> p.rows[i].high_risk_employee_ratio,
                       risk_score |-> TerminalScore(p.cols, p.rows[i]),
                       risk_flag |-> TerminalFlag(TerminalScore(p.cols, p.rows[i]))]]]

\* What score_terminals returns: the listed columns of the table that exist.
\* The rows keep every field; cols says which of them the returned table has.
ScoreTerminalsResult(pos) ==
    [cols |-> TerminalOutputColumns(ScoredTerminals(pos).cols),
     rows |-> ScoredTerminals(pos).rows]

(***************************************************************************)
(* validation.py: Validator                                                *)
(* Scores are in the units of risk_score; a rate tp/(tp+fn) is compared    *)
(* with a target given in percent by cross-multiplication.                 *)
(***************************************************************************)
\* TARGET_RECALL = 0.75, in percent
TARGET_RECALL == 75

\* TARGET_FPR = 0.10, in percent
TARGET_FPR == 10

\* A variant of the order of the thresholds: descending
RECURSIVE Descending(_)
Descending(S) == IF S = {} THEN <<>> ELSE <<SetMax(S)>> \o Descending(S \ {SetMax(S)})

\* The elements of a finite set of numbers, ascending
RECURSIVE Ascending(_)
Ascending(S) == IF S = {} THEN <<>> ELSE <<SetMin(S)>> \o Ascending(S \ {SetMin(S)})

\* precision_recall_curve raises ValueError unless the labels are binary:
\* values among 0 and 1 (pos_label is not given)
PrcRaises(labels) == ~(Range(labels) \subseteq {0, 1})

\* The thresholds precision_recall_curve returns, ascending: the distinct score
\* values; a build that stops at full recall drops those below the lowest
\* score of a positive (with no positive it keeps the highest score alone).
PrcThresholds(labels, scores, truncates) ==
    LET positive == {scores[i] : i \in {j \in DOMAIN scores : labels[j] = 1}}
        lowest == IF positive = {} THEN SetMax(Range(scores)) ELSE SetMin(positive)
    IN  IF truncates
        THEN Ascending({t \in Range(scores) : t >= lowest})
        ELSE Ascending(Range(scores))

\* (y_scores >= thresh).astype(int)
Predict(scores, thresh) == [i \in DOMAIN scores |-> IF scores[i] >= thresh THEN 1 ELSE 0]

Count(labels, pred, l, p) == Cardinality({i \in DOMAIN labels : labels[i] = l /\ pred[i] = p})

\* confusion_matrix(y_true, y_pred).ravel() has four entries only if two
\* classes occur among labels and predictions; unpacking fewer raises ValueError
ConfusionRaises(labels, pred) == Cardinality(Range(labels) \cup Range(pred)) < 2

\* tn, fp, fn, tp
Confusion(labels, pred) ==
    [tn |-> Count(labels, pred, 0, 0), fp |-> Count(labels, pred, 0, 1),
     fn |-> Count(labels, pred, 1, 0), tp |-> Count(labels, pred, 1, 1)]

\* recall_i >= target_recall, recall_i being 0 when tp + fn = 0
RecallMeets(m, target) ==
    IF m.tp + m.fn > 0 THEN m.tp * 100 >= target * (m.tp + m.fn) ELSE 0 >= target

\* fpr_i <= target_fpr, fpr_i being 0 when fp + tn = 0
FprMeets(m, target) ==
    IF m.fp + m.tn > 0 THEN m.fp * 100 <= target * (m.fp + m.tn) ELSE TRUE

\* Line 28: thresholds above 1 are not examined.  One point is PointUnits.
Skipped(thresh) == thresh > 1 * PointUnits

\* The loop of lines 27-40 over the thresholds from position k on
RECURSIVE Scan(_, _, _, _, _)
Scan(v, labels, scores, thresholds, k) ==
    IF k > Len(thresholds) THEN [found |-> FALSE]
    ELSE IF Skipped(thresholds[k]) THEN Scan(v, labels, scores, thresholds, k + 1)
    ELSE IF ConfusionRaises(labels, Predict(scores, thresholds[k])) THEN Raised("ValueError")
    ELSE LET m == Confusion(labels, Predict(scores, thresholds[k]))
         IN  IF RecallMeets(m, v.target_recall) /\ FprMeets(m, v.target_fpr)
             THEN [found |-> TRUE, thresh |-> thresholds[k], metrics |-> m]
             ELSE Scan(v, labels, scores, thresholds, k + 1)

\* find_best_threshold: [found |-> FALSE] stands for (None, None)
FindBestThreshold(v, labels, scores, truncates) ==
    IF PrcRaises(labels) THEN Raised("ValueError")
    ELSE Scan(v, labels, scores, PrcThresholds(labels, scores, truncates), 1)

\* Lines 48-50: the masks of error_analysis
FnMask(labels, scores, threshold) ==
    [i \in DOMAIN labels |-> labels[i] = 1 /\ Predict(scores, threshold)[i] = 0]

FpMask(labels, scores, threshold) ==
    [i \in DOMAIN labels |-> labels[i] = 0 /\ Predict(scores, threshold)[i] = 1]

\* series[mask], as a list
RECURSIVE Masked(_, _)
Masked(series, mask) ==
    IF series = <<>> THEN <<>>
    ELSE (IF Head(mask) THEN <<Head(series)>> ELSE <<>>) \o Masked(Tail(series), Tail(mask))

\* fraud_types[fn_mask].value_counts().to_dict(): the types of the masked
\* records, each with its count; a missing type ("") is not counted
ValueCounts(types) ==
    [t \in Range(types) \ {""} |-> Cardinality({i \in DOMAIN types : types[i] = t})]

\* fraud_types=None
NoFraudTypes == [given |-> FALSE, types |-> <<>>]

\* error_analysis.  fraud_types is NoFraudTypes or [given |-> TRUE, types |-> a
\* sequence].  The mask is aligned with the index of fraud_types: a fraud_types
\* Series longer than the mask cannot be aligned, which raises IndexingError.
ErrorAnalysis(labels, scores, threshold, employee_ids, fraud_types) ==
    LET fn == Masked(employee_ids, FnMask(labels, scores, threshold))
        fp == Masked(employee_ids, FpMask(labels, scores, threshold))
    IN  IF ~fraud_types.given
        THEN [false_negatives |-> fn, false_positives |-> fp,
              fn_count |-> Len(fn), fp_count |-> Len(fp)]
        ELSE IF Len(fraud_types.types) > Len(labels) THEN Raised("IndexingError")
        ELSE [false_negatives |-> fn, false_positives |-> fp,
              fn_count |-> Len(fn), fp_count |-> Len(fp),
              false_negatives_by_type |->
                  ValueCounts(Masked(fraud_types.types,
                                     SubSeq(FnMask(labels, scores, threshold),
                                            1, Len(fraud_types.types))))]

(***************************************************************************)
(* Inputs of the scorer                                                    *)
(***************************************************************************)
\* A second weight table, given to the constructor (weights=...): 0.5, 0.5, 0, 0, 0
HalfWeights ==
    [refund_anomaly |-> 5, void_anomaly |-> 5, override_anomaly |-> 0,
     cluster_risk |-> 0, time_anomaly |-> 0]

WeightTables == {RISK_WEIGHTS, HalfWeights}

\* z-scores, thousandths: 0, 2.999, 3.0 and -4.5 (beyond the clip)
ZVals == {0, 2999, One, -4500}

\* cluster_risk: missing, 0, 0.75, 1.0
ClusterVals == {NaN, 0, (3 * One) \div 4, One}

\* time_anomaly: 0 and 1.0
TimeVals == {0, One}

AllColumns == RequiredColumns \cup {"time_anomaly"}

\* The tables the scorer is given: every column, or one column missing
Schemas == {AllColumns} \cup {AllColumns \ {c} : c \in AllColumns}

EmployeeRows ==
    [employee_id : {1}, store_id : {1},
     refund_rate_zscore : ZVals, void_rate_zscore : ZVals, override_rate_zscore : ZVals,
     cluster_risk : ClusterVals, time_anomaly : TimeVals]

PatternTables ==
    {<<>>, [e \in {1} |-> [high_discount_cash |-> 2, refund_no_receipt |-> 1, total_patterns |-> 3]]}

(***************************************************************************)
(* The scorer called on a one-record table                                 *)
(***************************************************************************)
ScoreUnused ==
    /\ fillna_validates = FALSE
    /\ weights = RISK_WEIGHTS
    /\ features_df = [cols |-> {}, rows |-> <<>>]
    /\ pattern_counts = <<>>
    /\ risk_score = <<>>
    /\ reason_code = <<>>
    /\ risk_flag = <<>>
    /\ employee_risk = NoValue

TerminalUnused ==
    /\ features_pos = [cols |-> {}, rows |-> <<>>]
    /\ pos_risk = NoValue

ValidatorUnused ==
    /\ prc_truncates = FALSE
    /\ validator = [target_recall |-> TARGET_RECALL, target_fpr |-> TARGET_FPR]
    /\ y_true = <<>>
    /\ y_scores = <<>>
    /\ best = NoValue
    /\ error_analysis = [called |-> FALSE]

ClusterUnused ==
    /\ n_clusters = N_CLUSTERS
    /\ cluster_input = <<>>
    /\ clustered = NoValue

PatternUnused ==
    /\ transactions = [cols |-> {}, rows |-> <<>>]
    /\ pattern_result = NoValue

NoAnomaly == [present |-> FALSE]

MainUnused ==
    /\ employee_master = [cols |-> {}, rows |-> <<>>]
    /\ anomaly_employees = NoAnomaly
    /\ report = NoValue
    /\ outputs = {}
    /\ failed = NoValue

PeerUnused ==
    /\ features_employee = [cols |-> {}, rows |-> <<>>]
    /\ peer_returns = <<>>

InitScore ==
    /\ pc = "score_employees"
    /\ PeerUnused
    /\ MainUnused
    /\ TerminalUnused
    /\ ValidatorUnused
    /\ ClusterUnused
    /\ PatternUnused
    /\ fillna_validates \in BOOLEAN
    /\ weights \in WeightTables
    /\ \E s \in Schemas, r \in EmployeeRows : features_df = [cols |-> s, rows |-> <<r>>]
    /\ pattern_counts \in PatternTables
    /\ risk_score = <<>>
    /\ reason_code = <<>>
    /\ risk_flag = <<>>
    /\ employee_risk = NoValue

\* score_employees, lines 90-139
ScoreEmployees ==
    /\ pc = "score_employees"
    /\ pc' = "scored"
    /\ IF {"refund_rate_zscore", "void_rate_zscore", "override_rate_zscore", "cluster_risk"}
              \subseteq features_df.cols
       THEN /\ risk_score' = [i \in DOMAIN features_df.rows |->
                                 RiskScore(weights, features_df.cols, features_df.rows[i])]
            /\ reason_code' = [i \in DOMAIN features_df.rows |->
                                 IdxMax(Contributions(weights, features_df.cols, features_df.rows[i]))]
            /\ risk_flag' = [i \in DOMAIN features_df.rows |->
                                 RiskFlag(RiskScore(weights, features_df.cols, features_df.rows[i]))]
       ELSE UNCHANGED <<risk_score, reason_code, risk_flag>>
    /\ employee_risk' = ScoreEmployeesResult(weights, features_df, pattern_counts, fillna_validates)
    /\ UNCHANGED <<peerVars, fillna_validates, weights, features_df, pattern_counts, terminalVars,
                   validatorVars, clusterVars, patternVars, mainVars>>

NextScore == ScoreEmployees

SpecScore == InitScore /\ [][NextScore]_vars

(***************************************************************************)
(* The terminal scorer called on a one-record table                        *)
(***************************************************************************)
\* Terminal rates and ratio, thousandths: 0, 0.5, 1.0
RateVals == {0, 500, 1000}

TerminalColumns ==
    {"pos_terminal_id", "store_id", "refund_rate", "void_rate", "override_rate",
     "high_risk_employee_ratio"}

TerminalSchemas == {TerminalColumns} \cup {TerminalColumns \ {c} : c \in TerminalColumns}

TerminalRows ==
    [pos_terminal_id : {1}, store_id : {1}, refund_rate : RateVals, void_rate : RateVals,
     override_rate : RateVals, high_risk_employee_ratio : RateVals]

InitTerminal ==
    /\ pc = "score_terminals"
    /\ PeerUnused
    /\ MainUnused
    /\ ScoreUnused
    /\ ValidatorUnused
    /\ ClusterUnused
    /\ PatternUnused
    /\ \E s \in TerminalSchemas, r \in TerminalRows : features_pos = [cols |-> s, rows |-> <<r>>]
    /\ pos_risk = NoValue

\* score_terminals, lines 141-168
ScoreTerminals ==
    /\ pc = "score_terminals"
    /\ pc' = "terminals_scored"
    /\ pos_risk' = ScoreTerminalsResult(features_pos)
    /\ features_pos' = ScoredTerminals(features_pos)
    /\ UNCHANGED <<peerVars, scoreVars, validatorVars, clusterVars, patternVars, mainVars>>

NextTerminal == ScoreTerminals

SpecTerminal == InitTerminal /\ [][NextTerminal]_vars

(***************************************************************************)
(* The validator called on scores with labels                              *)
(***************************************************************************)
\* The longest score list given to the validator
MaxRecords == 4

\* Scores, in points: 0, 0.5, 1, 10, 40, 60, 90
ValidatorScores ==
    {0, PointUnits \div 2, PointUnits, 10 * PointUnits, 40 * PointUnits, 60 * PointUnits,
     90 * PointUnits}

\* Labels: 0, 1, and 2 (a label that is neither)
ValidatorLabels == {0, 1, 2}

\* The validators constructed: the defaults, target_recall=1.0 with
\* target_fpr=0.5, and target_recall=0.5 with target_fpr=0.5
Validators ==
    {[target_recall |-> TARGET_RECALL, target_fpr |-> TARGET_FPR],
     [target_recall |-> 100, target_fpr |-> 50],
     [target_recall |-> 50, target_fpr |-> 50]}

\* Score lists are drawn in ascending order: neither method depends on the
\* order of the records beyond the order of the lists it returns.
NonDecreasing(s) == \A i \in 1..(Len(s) - 1) : s[i] <= s[i + 1]

ScoreLists == {s \in UNION {[1..n -> ValidatorScores] : n \in 1..MaxRecords} : NonDecreasing(s)}

\* The fraud_type column of the records: the type of a fraud, missing otherwise
FraudTypesOf(labels) ==
    [given |-> TRUE, types |-> [i \in DOMAIN labels |-> IF labels[i] = 1 THEN "refund_abuse" ELSE ""]]

\* The thresholds error_analysis is called with: the high tier's, and 40
AnalysisThresholds == {RISK_THRESHOLDS.high * PointUnits, 40 * PointUnits}

InitValidator ==
    /\ pc = "validator"
    /\ PeerUnused
    /\ MainUnused
    /\ ScoreUnused
    /\ TerminalUnused
    /\ ClusterUnused
    /\ PatternUnused
    /\ prc_truncates \in BOOLEAN
    /\ validator \in Validators
    /\ y_scores \in ScoreLists
    /\ y_true \in [DOMAIN y_scores -> ValidatorLabels]
    /\ best = NoValue
    /\ error_analysis = [called |-> FALSE]

\* validator.find_best_threshold(y_true, y_scores)
CallFindBestThreshold ==
    /\ pc = "validator"
    /\ best = NoValue
    /\ best' = FindBestThreshold(validator, y_true, y_scores, prc_truncates)
    /\ UNCHANGED <<peerVars, pc, scoreVars, terminalVars, clusterVars, patternVars, mainVars, prc_truncates,
                   validator, y_true, y_scores, error_analysis>>

\* validator.error_analysis(y_true, y_scores, threshold, employee_ids, fraud_types)
CallErrorAnalysis ==
    /\ pc = "validator"
    /\ ~error_analysis.called
    /\ \E threshold \in AnalysisThresholds, ft \in {NoFraudTypes, FraudTypesOf(y_true)} :
          error_analysis' =
              [called |-> TRUE, threshold |-> threshold, fraud_types |-> ft,
               result |-> ErrorAnalysis(y_true, y_scores, threshold,
                                        [i \in DOMAIN y_scores |-> i], ft)]
    /\ UNCHANGED <<peerVars, pc, scoreVars, terminalVars, clusterVars, patternVars, mainVars, prc_truncates,
                   validator, y_true, y_scores, best>>

NextValidator == CallFindBestThreshold \/ CallErrorAnalysis

SpecValidator == InitValidator /\ [][NextValidator]_vars

(***************************************************************************)
(* The cluster engine called on a table                                    *)
(***************************************************************************)
\* The most records given to fit_predict
MaxClusterRecords == 5

\* Per-record means of the first three features, millionths: 0, 0.12, 0.6
ProxyVals == {0, 120000, 600000}

InitCluster ==
    /\ pc = "fit_predict"
    /\ PeerUnused
    /\ MainUnused
    /\ ScoreUnused
    /\ TerminalUnused
    /\ ValidatorUnused
    /\ PatternUnused
    /\ n_clusters \in {2, N_CLUSTERS}
    /\ cluster_input \in UNION {[1..n -> ProxyVals] : n \in 1..MaxClusterRecords}
    /\ clustered = NoValue

\* fit_predict, lines 16-39; the labels are those KMeans returns
CallFitPredict ==
    /\ pc = "fit_predict"
    /\ pc' = "clustered"
    /\ \E labels \in [DOMAIN cluster_input -> 0..(n_clusters - 1)] :
          clustered' = FitPredict(n_clusters, cluster_input, labels)
    /\ UNCHANGED <<peerVars, scoreVars, terminalVars, validatorVars, patternVars, mainVars, n_clusters,
                   cluster_input>>

NextCluster == CallFitPredict

SpecCluster == InitCluster /\ [][NextCluster]_vars

(***************************************************************************)
(* The pattern detector called on a table                                  *)
(***************************************************************************)
\* The most records of a table given to the pattern detector
MaxPatternRecords == 2

\* The columns of the monthly feature table that generate_employee_features
\* writes, as far as the pattern stage is concerned
FeatureColumns ==
    {"employee_id", "year_month", "high_discount_cash_count", "refund_no_receipt_count"}

\* A feature table, a transaction table, and a table with the columns of both
PatternSchemas == {FeatureColumns, PatternColumns, FeatureColumns \cup PatternColumns}

PatternRows ==
    [employee_id : {1, 2}, year_month : {0},
     high_discount_cash_count : {0, 2}, refund_no_receipt_count : {1},
     discount_amount : {0, 4}, sale_amount : {0, 10}, payment_method : {"cash", "card"},
     refund_flag : {0, 1}, receipt_provided : {0}]

\* The records of a table are numbered by period: record i is of year_month i
Dated(rows) == [i \in DOMAIN rows |-> [rows[i] EXCEPT !.year_month = i]]

InitPattern ==
    /\ pc = "get_pattern_counts"
    /\ PeerUnused
    /\ MainUnused
    /\ ScoreUnused
    /\ TerminalUnused
    /\ ValidatorUnused
    /\ ClusterUnused
    /\ \E s \in PatternSchemas, rows \in UNION {[1..n -> PatternRows] : n \in 1..MaxPatternRecords} :
          transactions = [cols |-> s, rows |-> Dated(rows)]
    /\ pattern_result = NoValue

\* PatternDetector(transactions).get_pattern_counts(), lines 45-74
CallGetPatternCounts ==
    /\ pc = "get_pattern_counts"
    /\ pc' = "patterns_counted"
    /\ pattern_result' = GetPatternCounts(transactions)
    /\ transactions' = WithDiscountPct(transactions)
    /\ UNCHANGED <<peerVars, scoreVars, terminalVars, validatorVars, clusterVars, mainVars>>

NextPattern == CallGetPatternCounts

SpecPattern == InitPattern /\ [][NextPattern]_vars

(***************************************************************************)
(* The feature processor called on a table                                 *)
(***************************************************************************)
\* The most records of a table given to the feature processor
MaxPeerRecords == 3

\* refund_rate, millionths: 0, 0.05, 0.1
PeerRateVals == {0, 50000, 100000}

\* The tables given: identity, store and two metrics; no store_id; no metric;
\* no identity and no store_id
PeerSchemas ==
    {{"employee_id", "store_id", "refund_rate", "void_rate"},
     {"employee_id", "refund_rate", "void_rate"},
     {"employee_id", "store_id"},
     {"refund_rate", "void_rate"}}

\* Record i is of employee i; void_rate is 0 throughout
PeerTable(schema, stores, refunds) ==
    [cols |-> schema,
     rows |-> [i \in DOMAIN stores |->
                  [employee_id |-> i, store_id |-> stores[i], refund_rate |-> refunds[i],
                   void_rate |-> 0]]]

\* employee_master for those records: every employee once; the last employee
\* not listed; employee 1 listed twice, first under the other store
PeerMasters(stores) ==
    LET complete == [i \in DOMAIN stores |-> [employee_id |-> i, store_id |-> stores[i]]]
    IN  {complete,
         SubSeq(complete, 1, Len(complete) - 1),
         <<[employee_id |-> 1, store_id |-> 3 - stores[1]]>> \o complete}

InitPeer ==
    /\ pc = "peer"
    /\ fillna_validates = FALSE
    /\ weights = RISK_WEIGHTS
    /\ pattern_counts = <<>>
    /\ risk_score = <<>>
    /\ reason_code = <<>>
    /\ risk_flag = <<>>
    /\ employee_risk = NoValue
    /\ TerminalUnused
    /\ ValidatorUnused
    /\ ClusterUnused
    /\ PatternUnused
    /\ anomaly_employees = NoAnomaly
    /\ report = NoValue
    /\ outputs = {}
    /\ failed = NoValue
    /\ \E n \in 1..MaxPeerRecords :
          \E stores \in [1..n -> {1, 2}], refunds \in [1..n -> PeerRateVals], schema \in PeerSchemas :
              /\ features_df = PeerTable(schema, stores, refunds)
              /\ employee_master \in
                    {[cols |-> {"employee_id", "store_id"}, rows |-> m] : m \in PeerMasters(stores)}
    /\ features_employee = features_df
    /\ peer_returns = <<>>

\* FeatureProcessor.add_peer_comparisons(), lines 13-43, on the processor's table
CallAddPeerComparisons ==
    /\ pc = "peer"
    /\ Len(peer_returns) < 2
    /\ peer_returns' = Append(peer_returns, AddPeerComparisons(features_employee, employee_master))
    /\ features_employee' = TableAfterPeerComparisons(features_employee, employee_master)
    /\ UNCHANGED <<pc, scoreVars, terminalVars, validatorVars, clusterVars, patternVars, mainVars>>

\* FeatureProcessor(features_df, ...), lines 7-11, after a first run: a new
\* processor with a copy of the table the first was given
NewFeatureProcessor ==
    /\ pc = "peer"
    /\ Len(peer_returns) = 1
    /\ features_employee # features_df
    /\ features_employee' = features_df
    /\ UNCHANGED <<pc, scoreVars, terminalVars, validatorVars, clusterVars, patternVars, mainVars,
                   peer_returns>>

NextPeer == CallAddPeerComparisons \/ NewFeatureProcessor

SpecPeer == InitPeer /\ [][NextPeer]_vars

(***************************************************************************)
(* pipeline.py: main                                                       *)
(* The tables read by DataLoader.load_all are the inputs of a run.         *)
(***************************************************************************)
\* The numbers of employee records: none, fewer than clusters, as many
PipelineSizes == {0, N_CLUSTERS - 2, N_CLUSTERS}

\* refund_rate of employee i, millionths: the same for all, or 0, 0.003,
\* 0.06, 0.09, 0.12
RefundLayouts == {[i \in 1..N_CLUSTERS |-> 60000], <<0, 3000, 60000, 90000, 120000>>}

\* refund_rate of the three employees of the end-to-end scenario: 0.05, 0.10,
\* 0.50; a run with more employees adds two at 0.05
ScenarioRefunds == <<50000, 100000, 500000, 50000, 50000>>

\* store_id of employee i: a store each, or one store for all
StoreLayouts == {[i \in 1..N_CLUSTERS |-> i], [i \in 1..N_CLUSTERS |-> 1]}

\* The columns of the employee table: identity, period, the rate metrics, the
\* monthly pattern counters and the transaction columns
EmployeeColumns ==
    FeatureColumns \cup PatternColumns
        \cup {"store_id", "refund_rate", "void_rate", "override_rate"}

\* The employee tables read: every column; one column missing; the columns
\* generate_employee_features writes (no transaction column); no rate metric
EmployeeSchemas ==
    {EmployeeColumns, EmployeeColumns \ (PatternColumns \ {"employee_id"}),
     EmployeeColumns \ {"refund_rate", "void_rate", "override_rate"}}
        \cup {EmployeeColumns \ {c} : c \in {"employee_id", "store_id", "refund_rate", "payment_method"}}

\* Employee 1 has a high-discount cash sale, employees 1 and 2 a refund
\* without receipt
EmployeeRecord(i, refund, store) ==
    [employee_id |-> i, store_id |-> store, year_month |-> 1,
     refund_rate |-> refund, void_rate |-> 0, override_rate |-> 0,
     high_discount_cash_count |-> IF i = 1 THEN 1 ELSE 0,
     refund_no_receipt_count |-> IF i <= 2 THEN 1 ELSE 0,
     discount_amount |-> IF i = 1 THEN 4 ELSE 0, sale_amount |-> 10,
     payment_method |-> IF i = 1 THEN "cash" ELSE "card",
     refund_flag |-> IF i <= 2 THEN 1 ELSE 0, receipt_provided |-> 0]

EmployeeTable(schema, n, refunds, stores) ==
    [cols |-> schema, rows |-> [i \in 1..n |-> EmployeeRecord(i, refunds[i], stores[i])]]

\* employee_master: every employee once, with or without the store_id column
MasterTable(schema, n, stores) ==
    [cols |-> schema, rows |-> [i \in 1..n |-> [employee_id |-> i, store_id |-> stores[i]]]]

\* The terminal tables read: one terminal; every column, or an identity column missing
PipelineTerminalSchemas ==
    {TerminalColumns, TerminalColumns \ {"pos_terminal_id"}, TerminalColumns \ {"store_id"}}

PipelineTerminalRow ==
    [pos_terminal_id |-> 1, store_id |-> 1, refund_rate |-> 500, void_rate |-> 0,
     override_rate |-> 0, high_risk_employee_ratio |-> 0]

\* The ground-truth tables read, for n employees: the first m employees
\* (m = n - 1 or n + 1) labelled; employee 1 with 0, 1 or 2, employee 2 with
\* 0 or 1, the others with 1
AnomalyRows(m, l1, l2) ==
    [i \in 1..m |->
        LET label == IF i = 1 THEN l1 ELSE IF i = 2 THEN l2 ELSE 1
        IN  [employee_id |-> i, ground_truth |-> label,
             fraud_type |-> IF label = 1 THEN "refund_abuse" ELSE ""]]

AnomalyTables(n) ==
    {NoAnomaly}
        \cup {[present |-> TRUE, cols |-> c, rows |-> AnomalyRows(n, 1, 1)] :
                 c \in {{"ground_truth"}, {"employee_id"}}}
        \cup {[present |-> TRUE, cols |-> c, rows |-> AnomalyRows(m, l1, l2)] :
                 c \in {{"employee_id", "ground_truth"}, {"employee_id", "ground_truth", "fraud_type"}},
                 m \in {k \in {n - 1, n + 1} : k >= 2}, l1 \in {0, 1, 2}, l2 \in {0, 1}}

\* sys.exit(1) at a stage
Exit(stage, error) ==
    /\ pc' = "exit"
    /\ failed' = [stage |-> stage, error |-> error]

InitMain ==
    /\ pc = "load"
    /\ PeerUnused
    /\ fillna_validates \in BOOLEAN
    /\ prc_truncates \in BOOLEAN
    /\ weights = RISK_WEIGHTS
    /\ features_df = [cols |-> {}, rows |-> <<>>]
    /\ pattern_counts = <<>>
    /\ risk_score = <<>>
    /\ reason_code = <<>>
    /\ risk_flag = <<>>
    /\ employee_risk = NoValue
    /\ validator = [target_recall |-> TARGET_RECALL, target_fpr |-> TARGET_FPR]
    /\ y_true = <<>>
    /\ y_scores = <<>>
    /\ best = NoValue
    /\ error_analysis = [called |-> FALSE]
    /\ TerminalUnused
    /\ ClusterUnused
    /\ PatternUnused
    /\ MainUnused

\* The schemas of the three tables of a run: any employee table with the
\* other two complete; employee_master without store_id, the employee table
\* with or without its own; a terminal table short of an identity column
InputSchemas ==
    {[employee |-> es, master |-> {"employee_id", "store_id"}, terminal |-> TerminalColumns] :
        es \in EmployeeSchemas}
    \cup {[employee |-> es, master |-> {"employee_id"}, terminal |-> TerminalColumns] :
             es \in {EmployeeColumns, EmployeeColumns \ {"store_id"}}}
    \cup {[employee |-> EmployeeColumns, master |-> {"employee_id", "store_id"}, terminal |-> ts] :
             ts \in PipelineTerminalSchemas}

\* Stage 1, lines 17-52: the tables are read; an empty employee table ends the run
Load ==
    /\ pc = "load"
    /\ \E n \in PipelineSizes, schema \in InputSchemas,
             refunds \in RefundLayouts \cup {ScenarioRefunds},
             stores \in StoreLayouts :
          /\ features_df' = EmployeeTable(schema.employee, n, refunds, stores)
          /\ employee_master' = MasterTable(schema.master, n, stores)
          /\ features_pos' = [cols |-> schema.terminal, rows |-> <<PipelineTerminalRow>>]
          /\ anomaly_employees' \in AnomalyTables(n)
          /\ IF n = 0 THEN Exit("load", "empty") ELSE pc' = "process" /\ UNCHANGED failed
    /\ UNCHANGED <<peerVars, fillna_validates, weights, pattern_counts, risk_score, reason_code, risk_flag,
                   employee_risk, pos_risk, validatorVars, clusterVars, patternVars, report, outputs>>

\* Stage 2, lines 54-63
ProcessFeatures ==
    /\ pc = "process"
    /\ IF IsRaised(Process(features_df, employee_master))
       THEN Exit("process", Process(features_df, employee_master).raised) /\ UNCHANGED features_df
       ELSE pc' = "cluster" /\ features_df' = Process(features_df, employee_master) /\ UNCHANGED failed
    /\ UNCHANGED <<peerVars, fillna_validates, weights, pattern_counts, risk_score, reason_code, risk_flag,
                   employee_risk, terminalVars, validatorVars, clusterVars, patternVars,
                   employee_master, anomaly_employees, report, outputs>>

\* Lines 69-70: the clustering features the table has, in the order given
ClusterFeatures(cols) == SelectSeq(PeerMetrics, LAMBDA m : m \in cols)

\* np.mean(center[:3]) for the centre of a single record, millionths
Proxy(cols, row) ==
    LET used == SubSeq(ClusterFeatures(cols), 1, IF Len(ClusterFeatures(cols)) < 3
                                                  THEN Len(ClusterFeatures(cols)) ELSE 3)
    IN  SumOver([k \in DOMAIN used |-> row[used[k]]], DOMAIN used) \div Len(used)

\* The partition KMeans finds when there are no more distinct records than
\* clusters: equal records together, different records apart.  Records of the
\* tables of the model are equal exactly when their proxies are.
KMeansLabels(proxies) ==
    [i \in DOMAIN proxies |-> Cardinality({x \in Range(proxies) : x < proxies[i]})]

\* Stage 3, lines 65-80
Clustering ==
    /\ pc = "cluster"
    /\ n_clusters' = N_CLUSTERS
    /\ IF ClusterFeatures(features_df.cols) = <<>>
       THEN /\ features_df' =
                  [cols |-> features_df.cols \cup {"cluster_risk"},
                   rows |-> [i \in DOMAIN features_df.rows |->
                                ("cluster_risk" :> One \div 2) @@ features_df.rows[i]]]
            /\ pc' = "pattern"
            /\ UNCHANGED <<cluster_input, clustered, failed>>
       ELSE LET proxies == [i \in DOMAIN features_df.rows |->
                               Proxy(features_df.cols, features_df.rows[i])]
                result == FitPredict(N_CLUSTERS, proxies, KMeansLabels(proxies))
            IN  /\ cluster_input' = proxies
                /\ clustered' = result
                /\ IF IsRaised(result)
                   THEN Exit("cluster", result.raised) /\ UNCHANGED features_df
                   ELSE /\ features_df' =
                              [cols |-> features_df.cols \cup {"cluster", "cluster_risk"},
                               rows |-> [i \in DOMAIN features_df.rows |->
                                            ("cluster" :> result.cluster[i])
                                            @@ ("cluster_risk" :> result.cluster_risk[i])
                                            @@ features_df.rows[i]]]
                        /\ pc' = "pattern"
                        /\ UNCHANGED failed
    /\ UNCHANGED <<peerVars, fillna_validates, weights, pattern_counts, risk_score, reason_code, risk_flag,
                   employee_risk, terminalVars, validatorVars, patternVars,
                   employee_master, anomaly_employees, report, outputs>>

\* Stage 4, lines 82-96: the detector is given the employee feature table
PatternDetection ==
    /\ pc = "pattern"
    /\ transactions' = WithDiscountPct(features_df)
    /\ features_df' = WithDiscountPct(features_df)
    /\ pattern_result' = GetPatternCounts(features_df)
    /\ IF IsRaised(GetPatternCounts(features_df))
       THEN Exit("pattern", GetPatternCounts(features_df).raised) /\ UNCHANGED pattern_counts
       ELSE pc' = "score" /\ pattern_counts' = GetPatternCounts(features_df).counts /\ UNCHANGED failed
    /\ UNCHANGED <<peerVars, fillna_validates, weights, risk_score, reason_code, risk_flag,
                   employee_risk, terminalVars, validatorVars, clusterVars,
                   employee_master, anomaly_employees, report, outputs>>

\* Stage 5, lines 98-110: score_employees, then score_terminals
RiskScoring ==
    /\ pc = "score"
    /\ weights' = RISK_WEIGHTS
    /\ employee_risk' = ScoreEmployeesResult(RISK_WEIGHTS, features_df, pattern_counts, fillna_validates)
    /\ IF {"refund_rate_zscore", "void_rate_zscore", "override_rate_zscore", "cluster_risk"}
              \subseteq features_df.cols
       THEN /\ risk_score' = [i \in DOMAIN features_df.rows |->
                                 RiskScore(RISK_WEIGHTS, features_df.cols, features_df.rows[i])]
            /\ reason_code' = [i \in DOMAIN features_df.rows |->
                                 IdxMax(Contributions(RISK_WEIGHTS, features_df.cols, features_df.rows[i]))]
            /\ risk_flag' = [i \in DOMAIN features_df.rows |->
                                 RiskFlag(RiskScore(RISK_WEIGHTS, features_df.cols, features_df.rows[i]))]
       ELSE UNCHANGED <<risk_score, reason_code, risk_flag>>
    /\ IF IsRaised(ScoreEmployeesResult(RISK_WEIGHTS, features_df, pattern_counts, fillna_validates))
       THEN /\ Exit("score", ScoreEmployeesResult(RISK_WEIGHTS, features_df, pattern_counts,
                                                  fillna_validates).raised)
            /\ UNCHANGED <<features_pos, pos_risk>>
       ELSE /\ pos_risk' = ScoreTerminalsResult(features_pos)
            /\ features_pos' = ScoredTerminals(features_pos)
            /\ pc' = "validate"
            /\ UNCHANGED failed
    /\ UNCHANGED <<peerVars, fillna_validates, features_df, pattern_counts, validatorVars, clusterVars,
                   patternVars, employee_master, anomaly_employees, report, outputs>>

\* Lines 117, 121: the label of each record of employee_risk after the left
\* merge with the ground-truth table, a missing label filled with 0
EvalLabels(risk, anomaly) ==
    [i \in DOMAIN risk.rows |->
        IF \E k \in DOMAIN anomaly.rows : anomaly.rows[k].employee_id = risk.rows[i].employee_id
        THEN anomaly.rows[CHOOSE k \in DOMAIN anomaly.rows :
                              anomaly.rows[k].employee_id = risk.rows[i].employee_id].ground_truth
        ELSE 0]

\* Line 136: anomaly_employees.get('fraud_type'), the column of the
\* ground-truth table itself
FraudTypeColumn(anomaly) ==
    IF "fraud_type" \in anomaly.cols
    THEN [given |-> TRUE, types |-> [k \in DOMAIN anomaly.rows |-> anomaly.rows[k].fraud_type]]
    ELSE NoFraudTypes

\* Line 130: risk_flag is replaced by High / Monitor at the threshold found
WithThresholdFlags(risk, thresh) ==
    [cols |-> risk.cols,
     rows |-> [i \in DOMAIN risk.rows |->
                  [risk.rows[i] EXCEPT !.risk_flag =
                      IF risk.rows[i].risk_score >= thresh THEN "High" ELSE "Monitor"]]]

\* Stage 6, lines 112-145.  An exception is caught and the run goes on.
Validation ==
    /\ pc = "validate"
    /\ pc' = "report"
    /\ IF anomaly_employees.present
          /\ {"employee_id", "ground_truth"} \subseteq anomaly_employees.cols
       THEN LET labels == EvalLabels(employee_risk, anomaly_employees)
                scores == [i \in DOMAIN employee_risk.rows |-> employee_risk.rows[i].risk_score]
                found == FindBestThreshold(validator, labels, scores, prc_truncates)
            IN  /\ y_true' = labels
                /\ y_scores' = scores
                /\ best' = found
                /\ IF IsRaised(found) THEN UNCHANGED <<employee_risk, error_analysis>>
                   ELSE IF found.found /\ found.thresh # 0
                   THEN /\ employee_risk' = WithThresholdFlags(employee_risk, found.thresh)
                        /\ UNCHANGED error_analysis
                   ELSE /\ error_analysis' =
                              [called |-> TRUE, threshold |-> RISK_THRESHOLDS.high * PointUnits,
                               fraud_types |-> FraudTypeColumn(anomaly_employees),
                               result |-> ErrorAnalysis(labels, scores,
                                              RISK_THRESHOLDS.high * PointUnits,
                                              [i \in DOMAIN employee_risk.rows |->
                                                  employee_risk.rows[i].employee_id],
                                              FraudTypeColumn(anomaly_employees))]
                        /\ UNCHANGED employee_risk
       ELSE UNCHANGED <<employee_risk, y_true, y_scores, best, error_analysis>>
    /\ UNCHANGED <<peerVars, fillna_validates, weights, features_df, pattern_counts, risk_score, reason_code,
                   risk_flag, terminalVars, prc_truncates, validator, clusterVars, patternVars,
                   mainVars>>

\* Lines 152-164: the merge needs employee_id and store_id of employee_master,
\* and the totals need the columns high_discount_cash_count and
\* refund_no_receipt_count, which pattern_counts does not have
ReportRaises(patterns, master) ==
    \/ ~({"employee_id", "store_id"} \subseteq master.cols)
    \/ DOMAIN patterns # {}

\* Stage 7, lines 147-171: the report is {} when there is no pattern row, and
\* {} again when an exception is caught
PatternReport ==
    /\ pc = "report"
    /\ pc' = "save"
    /\ report' = [content |-> <<>>, caught |-> ReportRaises(pattern_counts, employee_master)]
    /\ UNCHANGED <<peerVars, scoreVars, terminalVars, validatorVars, clusterVars, patternVars,
                   employee_master, anomaly_employees, outputs, failed>>

\* Stage 8, lines 173-188
SaveOutputs ==
    /\ pc = "save"
    /\ pc' = "completed"
    /\ outputs' = {"employee_risk", "pos_risk", "patterns"}
    /\ UNCHANGED <<peerVars, scoreVars, terminalVars, validatorVars, clusterVars, patternVars,
                   employee_master, anomaly_employees, report, failed>>

NextMain ==
    \/ Load
    \/ ProcessFeatures
    \/ Clustering
    \/ PatternDetection
    \/ RiskScoring
    \/ Validation
    \/ PatternReport
    \/ SaveOutputs

SpecMain == InitMain /\ [][NextMain]_vars

(***************************************************************************)
(* Claims about score_employees (checked under SpecScore)                  *)
(***************************************************************************)
\* The tier the threshold table assigns with the top interval closed at 100
TierClosedAt100(score) ==
    IF score < RISK_THRESHOLDS.moderate * PointUnits THEN "Monitor"
    ELSE IF score < RISK_THRESHOLDS.high * PointUnits THEN "Moderate"
    ELSE "High"

\* C1: every employee whose risk_score lies in [0, 100] is assigned exactly one
\* tier: below 70 Monitor, from 70 and below 85 Moderate, from 85 up to and
\* including 100 High.
C1_TierOfEveryScore ==
    (pc = "scored" /\ employee_risk # Raised("KeyError")) =>
        \A i \in DOMAIN risk_flag :
            (0 <= risk_score[i] /\ risk_score[i] <= 100 * PointUnits)
                => risk_flag[i] = TierClosedAt100(risk_score[i])

\* Component i holds the largest contribution of the row and no earlier
\* component holds as much
IsFirstLargest(i, contrib) ==
    /\ \A j \in 1..5 : contrib[j] <= contrib[i]
    /\ \A j \in 1..5 : j < i => contrib[j] < contrib[i]

\* C3: the reason_code of every record names the component whose
\* weight x component is largest, the earliest of refund, void, override,
\* cluster, time when several tie; and it is the reason_code of the record in
\* the returned table.
C3_ReasonIsLargestContribution ==
    pc = "scored" =>
        \A i \in DOMAIN reason_code :
            /\ \E k \in 1..5 :
                  /\ Components[k] = reason_code[i]
                  /\ IsFirstLargest(k, Contributions(weights, features_df.cols, features_df.rows[i]))
            /\ ~IsRaised(employee_risk) => employee_risk.rows[i].reason_code = reason_code[i]

\* C3's case: a returned record whose cluster contribution is strictly the largest
C3_ClusterDominates ==
    /\ pc = "scored"
    /\ ~IsRaised(employee_risk)
    /\ \E i \in DOMAIN features_df.rows :
          LET c == Contributions(weights, features_df.cols, features_df.rows[i])
          IN  /\ \A j \in {1, 2, 3, 5} : c[j] < c[4]
              /\ employee_risk.rows[i].reason_code = "cluster"

\* C4: a table that has its identity columns and lacks an optional signal
\* (cluster_risk, time_anomaly or a z-score) does not make score_employees
\* fail for the missing column.
C4_MissingSignalNeverFails ==
    (pc = "scored" /\ {"employee_id", "store_id"} \subseteq features_df.cols)
        => employee_risk # Raised("KeyError")

(***************************************************************************)
(* Claims about score_terminals (checked under SpecTerminal)               *)
(***************************************************************************)
\* 100 x (0.20 refund + 0.20 void + 0.20 override + 0.40 ratio), in thousandths
\* of a point, an absent column counting 0
ClaimedTerminalScore(cols, row) ==
    20 * GetOr0(cols, row, "refund_rate") + 20 * GetOr0(cols, row, "void_rate")
    + 20 * GetOr0(cols, row, "override_rate")
    + 40 * GetOr0(cols, row, "high_risk_employee_ratio")

\* C2: every terminal's risk_score is 100 x (0.20 refund_rate + 0.20 void_rate
\* + 0.20 override_rate + 0.40 high_risk_employee_ratio), the ratio counting 0
\* when its column is absent, and so lies in [0, 100].
C2_TerminalScoreFormula ==
    pc = "terminals_scored" =>
        \A i \in DOMAIN pos_risk.rows :
            /\ pos_risk.rows[i].risk_score = ClaimedTerminalScore(features_pos.cols, features_pos.rows[i])
            /\ 0 <= pos_risk.rows[i].risk_score
            /\ pos_risk.rows[i].risk_score <= 100 * 1000

(***************************************************************************)
(* Claims about the validator (checked under SpecValidator)                *)
(***************************************************************************)
\* Threshold t, predicting positive when score >= t, gives recall >= target_recall
\* and fpr <= target_fpr on the labels and scores given
MeetsBoth(t) ==
    LET m == Confusion(y_true, Predict(y_scores, t))
    IN  RecallMeets(m, validator.target_recall) /\ FprMeets(m, validator.target_fpr)

\* C5: with binary labels (here: both 0 and 1 occur), if some distinct score
\* value used as threshold gives recall >= target_recall and fpr <= target_fpr,
\* find_best_threshold returns a threshold, and that threshold satisfies both.
C5_FindsAThresholdWhenOneExists ==
    (best # NoValue /\ Range(y_true) = {0, 1} /\ \E t \in Range(y_scores) : MeetsBoth(t))
        => (~IsRaised(best) /\ best.found /\ MeetsBoth(best.thresh))

\* C10: a record is in false_negatives exactly when its label is 1 and its
\* score is below the threshold, in false_positives exactly when its label is
\* not 1 and its score is at or above the threshold; the counts are the sizes
\* of the lists and no record is in both.
C10_ErrorAnalysisPartition ==
    (error_analysis.called /\ ~IsRaised(error_analysis.result)) =>
        LET r == error_analysis.result
            t == error_analysis.threshold
        IN  /\ \A i \in DOMAIN y_true :
                  /\ (i \in Range(r.false_negatives)) <=> (y_true[i] = 1 /\ y_scores[i] < t)
                  /\ (i \in Range(r.false_positives)) <=> (y_true[i] # 1 /\ y_scores[i] >= t)
            /\ r.fn_count = Len(r.false_negatives)
            /\ r.fp_count = Len(r.false_positives)
            /\ Range(r.false_negatives) \cap Range(r.false_positives) = {}

\* The true positives at threshold t: with the positives fixed, recall is
\* higher exactly when there are more of them
TruePositives(t) == Confusion(y_true, Predict(y_scores, t)).tp

\* C12: a returned threshold is a score value that satisfies both targets; no
\* threshold before it in the scan was passed over or satisfied both; and no
\* distinct score value that satisfies both has a higher recall.
C12_ReturnsFirstQualifying ==
    (~IsRaised(best) /\ best.found) =>
        /\ best.thresh \in Range(y_scores)
        /\ MeetsBoth(best.thresh)
        /\ \A t \in Range(PrcThresholds(y_true, y_scores, prc_truncates)) :
              t < best.thresh => (~Skipped(t) /\ ~MeetsBoth(t))
        /\ \A t \in Range(y_scores) :
              MeetsBoth(t) => TruePositives(t) <= TruePositives(best.thresh)

\* C12's case: a threshold was returned and a later score value satisfies
\* both targets too, with a lower recall
C12_LaterValueQualifiesToo ==
    /\ ~IsRaised(best)
    /\ best.found
    /\ \E t \in Range(y_scores) :
          /\ t > best.thresh
          /\ MeetsBoth(t)
          /\ TruePositives(t) < TruePositives(best.thresh)

(***************************************************************************)
(* Claims about fit_predict (checked under SpecCluster)                    *)
(***************************************************************************)
\* The raw risk proxies of the clusters that have members
RawRisks == {ClusterRawRisk(cluster_input, clustered.cluster, c) : c \in Range(clustered.cluster)}

\* C7: when every cluster has the same raw risk every record gets cluster_risk
\* 0.5; otherwise cluster_risk lies in [0, 1].
C7_DegenerateRangeIsHalf ==
    (pc = "clustered" /\ ~IsRaised(clustered)) =>
        \A i \in DOMAIN clustered.cluster_risk :
            IF Cardinality(RawRisks) = 1
            THEN clustered.cluster_risk[i] * 2 = One
            ELSE 0 <= clustered.cluster_risk[i] /\ clustered.cluster_risk[i] <= One

(***************************************************************************)
(* Claims about the pattern stage (checked under SpecPattern)              *)
(***************************************************************************)
\* The record of employee e with the latest period
LastRecordOf(table, e) ==
    LET mine == {i \in DOMAIN table.rows : table.rows[i].employee_id = e}
        last == CHOOSE i \in mine :
                    \A j \in mine : table.rows[j].year_month <= table.rows[i].year_month
    IN  table.rows[last]

\* C8: given a feature table, the pattern stage returns one row per employee
\* id of the table, holding the pattern counters of that employee's latest
\* period; it does not fail on a table without transaction columns.
C8_PatternStageOnFeatureTable ==
    (pc = "patterns_counted" /\ FeatureColumns \subseteq transactions.cols) =>
        /\ ~IsRaised(pattern_result)
        /\ DOMAIN pattern_result.counts = {transactions.rows[i].employee_id : i \in DOMAIN transactions.rows}
        /\ \A e \in DOMAIN pattern_result.counts :
              /\ pattern_result.counts[e].high_discount_cash
                    = LastRecordOf(transactions, e).high_discount_cash_count
              /\ pattern_result.counts[e].refund_no_receipt
                    = LastRecordOf(transactions, e).refund_no_receipt_count

(***************************************************************************)
(* Claims about the pipeline (checked under SpecMain)                      *)
(***************************************************************************)
\* No threshold the scan examines satisfies both targets
NoScannedThresholdQualifies == \A t \in Range(y_scores) : Skipped(t) \/ ~MeetsBoth(t)

\* C6: whenever no scanned threshold satisfies both targets,
\* find_best_threshold returns its failure value without raising and the
\* pipeline has run error_analysis at the high threshold, 85, by the time it
\* reaches the report and save stages.
C6_NoThresholdRunsErrorAnalysis ==
    (pc \in {"report", "save", "completed"} /\ y_true # <<>> /\ NoScannedThresholdQualifies) =>
        /\ best = [found |-> FALSE]
        /\ error_analysis.called
        /\ error_analysis.threshold = RISK_THRESHOLDS.high * PointUnits

\* C9: when the employee table has no employee id, or the terminal table has
\* no terminal id or no store id, the run ends before the save stage: no
\* output file is written.
C9_MissingIdentityWritesNothing ==
    ("employee_id" \notin features_df.cols \/ ~({"pos_terminal_id", "store_id"} \subseteq features_pos.cols))
        => outputs = {}

\* The run was given the end-to-end scenario: three employees of store 1 with
\* refund_rate 0.05, 0.10, 0.50, the other metrics zero, every column present
IsScenario ==
    /\ EmployeeColumns \subseteq features_df.cols
    /\ Len(features_df.rows) = 3
    /\ \A i \in 1..3 :
          /\ features_df.rows[i].refund_rate = ScenarioRefunds[i]
          /\ features_df.rows[i].store_id = 1
          /\ features_df.rows[i].void_rate = 0
          /\ features_df.rows[i].override_rate = 0

\* C11: the run on the scenario does not end at a stage up to scoring, and
\* once scored the third employee has the highest refund z-score, the highest
\* risk_score, and reason_code refund.
C11_ScenarioRunsToScores ==
    IsScenario =>
        /\ pc # "exit"
        /\ pc \in {"validate", "report", "save", "completed"} =>
              /\ \A i \in 1..2 :
                    /\ features_df.rows[i].refund_rate_zscore < features_df.rows[3].refund_rate_zscore
                    /\ employee_risk.rows[i].risk_score < employee_risk.rows[3].risk_score
              /\ employee_risk.rows[3].reason_code = "refund"

\* C13: the table score_employees returns has the records of the feature
\* table it was given, each once and in the same order, and a record whose
\* employee id is not in the pattern table has 0 in every pattern-count
\* column (a record whose id is there has that entry's counts).
C13_EveryRecordOnceWithCounts ==
    ~IsRaised(employee_risk) =>
        /\ Len(employee_risk.rows) = Len(features_df.rows)
        /\ \A i \in DOMAIN employee_risk.rows :
              /\ employee_risk.rows[i].employee_id = features_df.rows[i].employee_id
              /\ IF features_df.rows[i].employee_id \in DOMAIN pattern_counts
                 THEN employee_risk.rows[i].patterns = pattern_counts[features_df.rows[i].employee_id]
                 ELSE employee_risk.rows[i].patterns
                          = [high_discount_cash |-> 0, refund_no_receipt |-> 0, total_patterns |-> 0]

\* C13's case: a table was returned for a feature table with an employee in
\* the pattern table and an employee absent from it
C13_SomeEmployeeWithoutPatterns ==
    /\ ~IsRaised(employee_risk)
    /\ \E i, j \in DOMAIN employee_risk.rows :
          /\ employee_risk.rows[i].employee_id \in DOMAIN pattern_counts
          /\ employee_risk.rows[i].patterns.total_patterns > 0
          /\ employee_risk.rows[j].employee_id \notin DOMAIN pattern_counts
          /\ employee_risk.rows[j].patterns.total_patterns = 0

(***************************************************************************)
(* Further claims about score_employees (checked under SpecScore)          *)
(***************************************************************************)
\* 100 x (0.30 refund + 0.20 void + 0.20 override + 0.20 cluster_risk
\* + 0.10 time_anomaly) in score units, each z-score component being
\* min(|z|, 3) / 3
ClaimedRiskScore(row) ==
    3 * Clip(Abs(row.refund_rate_zscore), 0, One)
    + 2 * Clip(Abs(row.void_rate_zscore), 0, One)
    + 2 * Clip(Abs(row.override_rate_zscore), 0, One)
    + 2 * row.cluster_risk
    + 1 * row.time_anomaly

\* C14: with the default weights and cluster_risk and time_anomaly in [0, 1],
\* the risk_score of every record is 100 x the weighted sum of its five
\* components, lies in [0, 100], and is exactly 100 when all five components
\* are 1.
C14_WeightedSumScore ==
    (pc = "scored" /\ weights = RISK_WEIGHTS /\ "time_anomaly" \in features_df.cols) =>
        \A i \in DOMAIN risk_score :
            features_df.rows[i].cluster_risk # NaN =>
                /\ risk_score[i] = ClaimedRiskScore(features_df.rows[i])
                /\ 0 <= risk_score[i]
                /\ risk_score[i] <= 100 * PointUnits
                /\ (\A k \in 1..5 : ComponentValues(features_df.cols, features_df.rows[i])[k] = One)
                       => risk_score[i] = 100 * PointUnits

(***************************************************************************)
(* Claims about add_peer_comparisons (checked under SpecPeer)              *)
(***************************************************************************)
\* The first call of add_peer_comparisons returned a table
FirstRunReturned == Len(peer_returns) >= 1 /\ ~IsRaised(peer_returns[1])

\* Record i of the table has a store, and its store group has a single member
\* or the same value of the metric throughout
DegenerateGroup(table, metric, i) ==
    /\ table.rows[i].store_id # NaN
    /\ \A j \in StoreGroup(table.rows, i) : table.rows[j][metric] = table.rows[i][metric]

\* C15 as stated: every record of a store group with a single member or
\* without variance in a metric gets a z-score of exactly 0 for it (never a
\* missing one).
C15_DegenerateGroupScoresZero ==
    FirstRunReturned =>
        \A k \in 1..Len(PeerMetrics) : PeerMetrics[k] \in peer_returns[1].cols =>
            \A i \in DOMAIN peer_returns[1].rows :
                DegenerateGroup(peer_returns[1], PeerMetrics[k], i) =>
                    /\ peer_returns[1].rows[i][PeerMetrics[k] \o "_zscore"] = 0
                    /\ peer_returns[1].rows[i][PeerMetrics[k] \o "_zscore_residue"] = 0

\* C15, amended: every such record gets a z-score that is not missing and is
\* 0 to the thousandth, and exactly 0 when the group has a single member.
C15_DegenerateGroupScoresNearZero ==
    FirstRunReturned =>
        \A k \in 1..Len(PeerMetrics) : PeerMetrics[k] \in peer_returns[1].cols =>
            \A i \in DOMAIN peer_returns[1].rows :
                DegenerateGroup(peer_returns[1], PeerMetrics[k], i) =>
                    /\ peer_returns[1].rows[i][PeerMetrics[k] \o "_zscore"] = 0
                    /\ Cardinality(StoreGroup(peer_returns[1].rows, i)) = 1 =>
                          peer_returns[1].rows[i][PeerMetrics[k] \o "_zscore_residue"] = 0

\* C15's case: a returned table with a store of three records at the same
\* refund_rate, whose mean is not that value in doubles, beside a store of a
\* single record
C15_EqualGroupOfThree ==
    /\ FirstRunReturned
    /\ "refund_rate" \in peer_returns[1].cols
    /\ \E i, j \in DOMAIN peer_returns[1].rows :
          /\ DegenerateGroup(peer_returns[1], "refund_rate", i)
          /\ Cardinality(StoreGroup(peer_returns[1].rows, i)) = 3
          /\ peer_returns[1].rows[i].refund_rate_zscore = 0
          /\ peer_returns[1].rows[i].refund_rate_zscore_residue = -1
          /\ DegenerateGroup(peer_returns[1], "refund_rate", j)
          /\ Cardinality(StoreGroup(peer_returns[1].rows, j)) = 1
          /\ peer_returns[1].rows[j].refund_rate_zscore = 0

\* C16: after a first run that returned a table, a second run of
\* add_peer_comparisons for the same feature table returns a table too, with
\* the z-score and percentile of every record and metric as in the first.
C16_SecondRunSameColumns ==
    (Len(peer_returns) = 2 /\ ~IsRaised(peer_returns[1])) =>
        /\ ~IsRaised(peer_returns[2])
        /\ Len(peer_returns[2].rows) = Len(peer_returns[1].rows)
        /\ \A k \in 1..Len(PeerMetrics) : PeerMetrics[k] \in peer_returns[1].cols =>
              \A i \in DOMAIN peer_returns[1].rows :
                  /\ peer_returns[2].rows[i][PeerMetrics[k] \o "_zscore"]
                        = peer_returns[1].rows[i][PeerMetrics[k] \o "_zscore"]
                  /\ peer_returns[2].rows[i][PeerMetrics[k] \o "_percentile"]
                        = peer_returns[1].rows[i][PeerMetrics[k] \o "_percentile"]

\* C17: the table add_peer_comparisons returns has every column of the table
\* the processor was given and the same records in the same order, each with
\* its values in those columns, also when store_id was joined in from
\* employee_master.
C17_OnlyAddsColumns ==
    FirstRunReturned =>
        /\ features_df.cols \subseteq peer_returns[1].cols
        /\ Len(peer_returns[1].rows) = Len(features_df.rows)
        /\ \A i \in DOMAIN features_df.rows : \A c \in features_df.cols :
              peer_returns[1].rows[i][c] = features_df.rows[i][c]

(***************************************************************************)
(* Further claims about the pipeline (checked under SpecMain)              *)
(***************************************************************************)
\* C18: in every run that reaches the save stage, the risk_flag written for
\* an employee is the tier the threshold table (moderate 70, high 85) assigns
\* to the employee's risk_score, the one score_employees gave: the validation
\* stage changes no tier.
C18_SavedTierIsConfiguredTier ==
    pc \in {"save", "completed"} =>
        \A i \in DOMAIN employee_risk.rows :
            /\ employee_risk.rows[i].risk_flag = TierClosedAt100(employee_risk.rows[i].risk_score)
            /\ employee_risk.rows[i].risk_flag = risk_flag[i]

====
